---- MODULE Spec2Model ----
(***************************************************************************)
(* Model of gnosis/eth/django/serializers.py: the field classes            *)
(* EthereumAddressField, HexadecimalField, Sha3HashField, Uint96Field,     *)
(* Uint32Field and the serializers SignatureSerializer,                    *)
(* TransactionSerializer and TransactionResponseSerializer.                *)
(*                                                                         *)
(* Every field is a pure validator/serializer.  The state machine applies  *)
(* one operation per step to an input drawn from a bounded set and keeps   *)
(* the input, the field's configuration and the outcome in the state.      *)
(*                                                                         *)
(* Text is a sequence of one-character strings, a byte string a sequence   *)
(* of integers 0..255.  Python values are records [type, val].             *)
(***************************************************************************)
EXTENDS Integers, Sequences, FiniteSets, TLC

VARIABLES op, field, data, result

vars == <<op, field, data, result>>

(***************************************************************************)
(* Bounds of the model                                                     *)
(***************************************************************************)
\* longest text handed to HexadecimalField.to_internal_value
MaxStrLen == 4
\* longest byte string handed to the hex codec
MaxBytesLen == 2
\* largest min_length / max_length a HexadecimalField is configured with
MaxBound == 2

(***************************************************************************)
(* Outcomes of an operation                                                *)
(***************************************************************************)
\* the operation returned `v`
Ok(v) == [kind |-> "value", code |-> "", param |-> 0, value |-> v]

\* the operation returned None
NoValue == [kind |-> "none", code |-> "", param |-> 0, value |-> <<>>]

\* self.fail(code, ...) / raise ValidationError: a validation error
Fail(code, param) == [kind |-> "error", code |-> code, param |-> param, value |-> <<>>]

\* an exception other than ValidationError leaves the operation
Raise(exc) == [kind |-> "raise", code |-> exc, param |-> 0, value |-> <<>>]

(***************************************************************************)
(* Python values                                                           *)
(***************************************************************************)
None == [type |-> "NoneType", text |-> <<>>, bytes |-> <<>>, int |-> 0]

Str(s) == [type |-> "str", text |-> s, bytes |-> <<>>, int |-> 0]

ByteObject(t, b) == [type |-> t, text |-> <<>>, bytes |-> b, int |-> 0]

Bytes(b) == ByteObject("bytes", b)

PyInt(n) == [type |-> "int", text |-> <<>>, bytes |-> <<>>, int |-> n]

\* bool(value) is False: None, "", b"", 0
Falsy(value) == value.text = <<>> /\ value.bytes = <<>> /\ value.int = 0

\* an optional keyword argument: <<>> is None, <<n>> is n
Truthy(opt) == opt # <<>> /\ opt[1] # 0

(***************************************************************************)
(* Characters and text                                                     *)
(***************************************************************************)
HexLower == <<"0", "1", "2", "3", "4", "5", "6", "7",
              "8", "9", "a", "b", "c", "d", "e", "f">>

HexUpper == <<"0", "1", "2", "3", "4", "5", "6", "7",
              "8", "9", "A", "B", "C", "D", "E", "F">>

IsHexChar(c) == \E i \in 1..16 : HexLower[i] = c \/ HexUpper[i] = c

\* the value of a hex digit, either case (binascii.unhexlify, int(_, 16))
HexVal(c) == (CHOOSE i \in 1..16 : HexLower[i] = c \/ HexUpper[i] = c) - 1

IsSpace(c) == c = " "

RECURSIVE LStrip(_)
LStrip(s) == IF s # <<>> /\ IsSpace(Head(s)) THEN LStrip(Tail(s)) ELSE s

RECURSIVE RStrip(_)
RStrip(s) ==
    IF s # <<>> /\ IsSpace(s[Len(s)]) THEN RStrip(SubSeq(s, 1, Len(s) - 1)) ELSE s

\* str.strip()
Strip(s) == RStrip(LStrip(s))

\* str.startswith(p)
StartsWith(s, p) == Len(s) >= Len(p) /\ SubSeq(s, 1, Len(p)) = p

\* s[n:]
DropFirst(s, n) == SubSeq(s, n + 1, Len(s))

\* n copies of x
Repeat(x, n) == [i \in 1..n |-> x]

(***************************************************************************)
(* bytes.hex(), binascii.unhexlify and HexBytes                            *)
(***************************************************************************)
\* bytes.hex() / memoryview.hex(): two lowercase digits per byte, no prefix
RECURSIVE bytes_hex(_)
bytes_hex(b) ==
    IF b = <<>> THEN <<>>
    ELSE <<HexLower[(Head(b) \div 16) + 1], HexLower[(Head(b) % 16) + 1]>>
             \o bytes_hex(Tail(b))

\* binascii.unhexlify on text of even length made of hex digits
RECURSIVE unhexlify(_)
unhexlify(s) ==
    IF s = <<>> THEN <<>>
    ELSE <<16 * HexVal(s[1]) + HexVal(s[2])>> \o unhexlify(DropFirst(s, 2))

\* hexbytes._utils.hexstr_to_bytes: an optional 0x/0X prefix is dropped, text of
\* odd length is left-padded with "0", anything unhexlify refuses is a ValueError
hexstr_to_bytes(hexstr) ==
    LET non_prefixed_hex == IF StartsWith(hexstr, <<"0", "x">>)
                               \/ StartsWith(hexstr, <<"0", "X">>)
                            THEN DropFirst(hexstr, 2) ELSE hexstr
        padded_hex == IF Len(hexstr) % 2 = 1 THEN <<"0">> \o non_prefixed_hex
                      ELSE non_prefixed_hex
    IN  IF Len(padded_hex) % 2 = 0
           /\ \A i \in 1..Len(padded_hex) : IsHexChar(padded_hex[i])
        THEN Ok(unhexlify(padded_hex))
        ELSE Raise("ValueError")

\* HexBytes.hex(): "0x" and the lowercase digits of the bytes
HexBytes_hex(b) == <<"0", "x">> \o bytes_hex(b)

(***************************************************************************)
(* HexadecimalField                                                        *)
(***************************************************************************)
\* HexadecimalField.__init__
HexadecimalField(allow_blank, max_length, min_length) ==
    [class |-> "HexadecimalField", allow_blank |-> allow_blank,
     max_length |-> max_length, min_length |-> min_length]

\* min_length / max_length values: None or 0..MaxBound
LengthOptions == {<<>>} \cup {<<n>> : n \in 0..MaxBound}

HexadecimalFields ==
    {HexadecimalField(ab, mx, mn) : ab \in BOOLEAN, mx \in LengthOptions, mn \in LengthOptions}

\* obj.hex() of the three byte types
obj_hex(obj) == IF obj.type = "HexBytes" THEN HexBytes_hex(obj.bytes) ELSE bytes_hex(obj.bytes)

\* Sha3HashField.__init__: both bounds are 32, allow_blank is the caller's
Sha3HashField(allow_blank) ==
    [class |-> "Sha3HashField", allow_blank |-> allow_blank,
     max_length |-> <<32>>, min_length |-> <<32>>]

Sha3HashFields == {Sha3HashField(ab) : ab \in BOOLEAN}

\* to_representation returning obj.hex() of whatever it was given
Mutant_to_representation_raw_hex(obj) ==
    IF Falsy(obj) THEN Ok(<<"0", "x">>)
    ELSE IF obj.type \in {"bytes", "memoryview", "HexBytes"} THEN Ok(obj_hex(obj))
    ELSE Ok(obj.text)

\* HexadecimalField.to_representation
HexadecimalField_to_representation(obj) ==
    IF Falsy(obj)                                       \* not obj: None, b"", ""
    THEN Ok(<<"0", "x">>)
    ELSE LET made == IF obj.type \in {"bytes", "memoryview", "HexBytes"}
                     THEN hexstr_to_bytes(obj_hex(obj))     \* hasattr(obj, "hex")
                     ELSE hexstr_to_bytes(obj.text)          \* HexBytes(obj) of a str
         IN  IF made.kind = "value" THEN Ok(HexBytes_hex(made.value)) ELSE made

\* the text to_internal_value works on (lines 95-104), <<>> for None
internal_text(value) ==
    IF value.type \in {"bytes", "memoryview", "HexBytes"}
    THEN obj_hex(value)
    ELSE IF value.type = "str"
    THEN LET stripped == Strip(value.text)
         IN  IF StartsWith(stripped, <<"0", "x">>)
             THEN DropFirst(stripped, 2) ELSE stripped
    ELSE <<>>

\* to_internal_value counting the hexadecimal chars instead of the bytes
Mutant_to_internal_value_counts_chars(self, value) ==
    IF value.type \notin {"bytes", "memoryview", "HexBytes", "str", "NoneType"}
    THEN Fail("invalid", 0)
    ELSE
    LET text == internal_text(value)
    IN  IF text = <<>>
        THEN IF self.allow_blank THEN NoValue ELSE Fail("blank", 0)
        ELSE LET data_hex == hexstr_to_bytes(text)
             IN  IF data_hex.kind # "value" THEN Fail("invalid", 0)
                 ELSE LET data_len == Len(text)
                      IN  IF Truthy(self.min_length) /\ data_len < self.min_length[1]
                          THEN Fail("min_length", self.min_length[1])
                          ELSE IF Truthy(self.max_length) /\ data_len > self.max_length[1]
                          THEN Fail("max_length", self.max_length[1])
                          ELSE Ok(data_hex.value)

\* to_internal_value with both length comparisons off by one (<=, >=)
Mutant_to_internal_value_off_by_one(self, value) ==
    IF value.type \notin {"bytes", "memoryview", "HexBytes", "str", "NoneType"}
    THEN Fail("invalid", 0)
    ELSE
    LET text == internal_text(value)
    IN  IF text = <<>>
        THEN IF self.allow_blank THEN NoValue ELSE Fail("blank", 0)
        ELSE LET data_hex == hexstr_to_bytes(text)
             IN  IF data_hex.kind # "value" THEN Fail("invalid", 0)
                 ELSE LET data_len == Len(data_hex.value)
                      IN  IF Truthy(self.min_length) /\ data_len <= self.min_length[1]
                          THEN Fail("min_length", self.min_length[1])
                          ELSE IF Truthy(self.max_length) /\ data_len >= self.max_length[1]
                          THEN Fail("max_length", self.max_length[1])
                          ELSE Ok(data_hex.value)

\* HexadecimalField.to_internal_value
HexadecimalField_to_internal_value(self, value) ==
    IF value.type \notin {"bytes", "memoryview", "HexBytes", "str", "NoneType"}
    THEN Fail("invalid", 0)
    ELSE
    LET text == internal_text(value)
    IN  IF text = <<>>
        THEN IF self.allow_blank THEN NoValue ELSE Fail("blank", 0)
        ELSE LET data_hex == hexstr_to_bytes(text)
             IN  IF data_hex.kind # "value" THEN Fail("invalid", 0)
                 ELSE LET data_len == Len(data_hex.value)
                      IN  IF Truthy(self.min_length) /\ data_len < self.min_length[1]
                          THEN Fail("min_length", self.min_length[1])
                          ELSE IF Truthy(self.max_length) /\ data_len > self.max_length[1]
                          THEN Fail("max_length", self.max_length[1])
                          ELSE Ok(data_hex.value)


(***************************************************************************)
(* EthereumAddressField                                                    *)
(*                                                                         *)
(* fast_is_checksum_address lives in gnosis/eth/utils.py.  An address has  *)
(* AddrHexLen hex digits here (40 in the program), and KeccakNibble stands *)
(* for the digits of keccak256 of the lowercase address: what EIP-55 needs *)
(* of it is that it is a function of the lowercase text alone.             *)
(***************************************************************************)
\* hex digits of an address in the model
AddrHexLen == 3

\* str.lower() / str.upper() of one character
Lower(c) == CASE c = "A" -> "a" [] c = "G" -> "g" [] c = "X" -> "x" [] OTHER -> c

Upper(c) == CASE c = "a" -> "A" [] c = "g" -> "G" [] c = "x" -> "X" [] OTHER -> c

CharCode(c) == IF IsHexChar(c) THEN HexVal(c) ELSE 16

RECURSIVE WeightedSum(_, _)
WeightedSum(text, i) ==
    IF i > Len(text) THEN 0 ELSE i * CharCode(text[i]) + WeightedSum(text, i + 1)

\* digit i of the hash of the lowercase address text
KeccakNibble(text, i) == (7 * WeightedSum(text, 1) + 5 * i + Len(text)) % 16

\* fast_to_checksum_address of "0x" + body: a letter is upper case exactly when
\* its hash digit is above 7
fast_to_checksum_address(value) ==
    LET address == [i \in 1..(Len(value) - 2) |-> Lower(value[i + 2])]
    IN  <<"0", "x">> \o
        [i \in 1..Len(address) |->
            IF KeccakNibble(address, i) > 7 THEN Upper(address[i]) ELSE address[i]]

\* fast_is_checksum_address
fast_is_checksum_address(value) ==
    /\ value.type = "str"
    /\ Len(value.text) = AddrHexLen + 2
    /\ StartsWith(value.text, <<"0", "x">>)
    /\ fast_to_checksum_address(value.text) = value.text

RECURSIVE HexNumber(_, _)
HexNumber(digits, acc) ==
    IF digits = <<>> THEN acc ELSE HexNumber(Tail(digits), 16 * acc + HexVal(Head(digits)))

\* int(text, 16): an optional 0x/0X prefix, then hex digits; anything else is a
\* ValueError
int_base16(text) ==
    LET digits == IF StartsWith(text, <<"0", "x">>) \/ StartsWith(text, <<"0", "X">>)
                  THEN DropFirst(text, 2) ELSE text
    IN  IF digits # <<>> /\ \A i \in 1..Len(digits) : IsHexChar(digits[i])
        THEN Ok(HexNumber(digits, 0))
        ELSE Raise("ValueError")

\* EthereumAddressField.__init__
EthereumAddressField(allow_zero_address, allow_sentinel_address) ==
    [class |-> "EthereumAddressField", allow_zero_address |-> allow_zero_address,
     allow_sentinel_address |-> allow_sentinel_address]

EthereumAddressFields == {EthereumAddressField(z, s) : z \in BOOLEAN, s \in BOOLEAN}

\* EthereumAddressField.to_representation
EthereumAddressField_to_representation(obj) == obj

\* to_internal_value with the 0x0 and 0x1 checks ahead of the checksum check
Mutant_address_zero_check_first(self, value) ==
    LET number == IF value.type = "str" THEN int_base16(value.text) ELSE Raise("TypeError")
    IN  IF number.kind = "value" /\ number.value = 0 /\ ~self.allow_zero_address
        THEN Fail("zero_address", 0)
        ELSE IF number.kind = "value" /\ number.value = 1 /\ ~self.allow_sentinel_address
        THEN Fail("sentinel_address", 0)
        ELSE IF ~fast_is_checksum_address(value) \/ number.kind # "value"
        THEN Fail("not_checksumed", 0)
        ELSE Ok(value.text)

\* to_internal_value with the 0x1 check reading allow_zero_address
Mutant_address_sentinel_reads_zero_flag(self, value) ==
    IF ~fast_is_checksum_address(value)
    THEN Fail("not_checksumed", 0)
    ELSE LET number == int_base16(value.text)
         IN  IF number.kind # "value" THEN Fail("not_checksumed", 0)
             ELSE IF number.value = 0 /\ ~self.allow_zero_address
             THEN Fail("zero_address", 0)
             ELSE IF number.value = 1 /\ ~self.allow_zero_address
             THEN Fail("sentinel_address", 0)
             ELSE Ok(value.text)

\* EthereumAddressField.to_internal_value: ValueError, raised by hand or by
\* int(data, 16), becomes the "not checksumed" error
EthereumAddressField_to_internal_value(self, value) ==
    IF ~fast_is_checksum_address(value)
    THEN Fail("not_checksumed", 0)
    ELSE LET number == int_base16(value.text)
         IN  IF number.kind # "value" THEN Fail("not_checksumed", 0)
             ELSE IF number.value = 0 /\ ~self.allow_zero_address
             THEN Fail("zero_address", 0)
             ELSE IF number.value = 1 /\ ~self.allow_sentinel_address
             THEN Fail("sentinel_address", 0)
             ELSE Ok(value.text)

(***************************************************************************)
(* Uint96Field and Uint32Field: rest_framework DecimalField                *)
(*                                                                         *)
(* A decimal is [sign, digits, exponent] as Decimal.as_tuple() gives it:   *)
(* sign 1 is negative, digits has no leading zero unless it is <<0>>.      *)
(***************************************************************************)
\* DecimalField.__init__ with the keyword arguments the two fields set
DecimalField(class, min_value, max_digits, decimal_places) ==
    [class |-> class, min_value |-> min_value, max_digits |-> max_digits,
     decimal_places |-> decimal_places,
     max_whole_digits |-> max_digits - decimal_places]

\* Uint96Field.__init__
Uint96Field == DecimalField("Uint96Field", 0, 29, 0)

\* Uint32Field.__init__
Uint32Field == DecimalField("Uint32Field", 0, 10, 0)

IsZero(value) == \A i \in 1..Len(value.digits) : value.digits[i] = 0

\* abs(n)
Abs(n) == IF n < 0 THEN -n ELSE n

\* DecimalField.quantize to no decimal places, of a decimal without any
quantize(value) ==
    [sign |-> value.sign, exponent |-> 0,
     digits |-> IF IsZero(value) THEN <<0>>
                ELSE value.digits \o Repeat(0, value.exponent)]

\* DecimalField.validate_precision and quantize, then MinValueValidator(min_value)
\* for min_value = Decimal(0): what a DecimalField does with a finite decimal
DecimalField_run_validation(self, value) ==
    LET nd == Len(value.digits)
        total_digits == IF value.exponent >= 0 THEN nd + value.exponent
                        ELSE IF nd > Abs(value.exponent) THEN nd
                        ELSE Abs(value.exponent)
        whole_digits == IF value.exponent >= 0 THEN total_digits
                        ELSE IF nd > Abs(value.exponent) THEN total_digits - Abs(value.exponent)
                        ELSE 0
        decimal_places == IF value.exponent >= 0 THEN 0
                          ELSE IF nd > Abs(value.exponent) THEN Abs(value.exponent)
                          ELSE total_digits
    IN  IF total_digits > self.max_digits THEN Fail("max_digits", self.max_digits)
        ELSE IF decimal_places > self.decimal_places
        THEN Fail("max_decimal_places", self.decimal_places)
        ELSE IF whole_digits > self.max_whole_digits
        THEN Fail("max_whole_digits", self.max_whole_digits)
        ELSE IF value.sign = 1 /\ ~IsZero(value)       \* value < min_value
        THEN Fail("min_value", self.min_value)
        ELSE Ok(quantize(value))

(***************************************************************************)
(* SignatureSerializer                                                     *)
(*                                                                         *)
(* The six bounds live in gnosis/eth/constants.py.  SECPK1_N, the order of *)
(* the curve, is a 256-bit number there and a small one here.              *)
(***************************************************************************)
SECPK1_N == 13

SIGNATURE_R_MIN_VALUE == 1

SIGNATURE_R_MAX_VALUE == SECPK1_N - 1

SIGNATURE_S_MIN_VALUE == 1

SIGNATURE_S_MAX_VALUE == SECPK1_N \div 2

SIGNATURE_V_MIN_VALUE == 0

SIGNATURE_V_MAX_VALUE == 30

\* serializers.IntegerField(min_value=..., max_value=...) validating an integer:
\* MinValueValidator and MaxValueValidator, both bounds inclusive
IntegerField_run_validation(min_value, max_value, value) ==
    IF min_value # <<>> /\ value < min_value[1] THEN Fail("min_value", min_value[1])
    ELSE IF max_value # <<>> /\ value > max_value[1] THEN Fail("max_value", max_value[1])
    ELSE Ok(value)

\* the serializer with s checked against the bounds of r
Mutant_signature_s_uses_r_bounds(value) ==
    [v |-> IntegerField_run_validation(
               <<SIGNATURE_V_MIN_VALUE>>, <<SIGNATURE_V_MAX_VALUE>>, value.v),
     r |-> IntegerField_run_validation(
               <<SIGNATURE_R_MIN_VALUE>>, <<SIGNATURE_R_MAX_VALUE>>, value.r),
     s |-> IntegerField_run_validation(
               <<SIGNATURE_R_MIN_VALUE>>, <<SIGNATURE_R_MAX_VALUE>>, value.s)]

\* SignatureSerializer: the outcome of each declared field; DRF validates every
\* field and reports the errors of all of them
SignatureSerializer_run_validation(value) ==
    [v |-> IntegerField_run_validation(
               <<SIGNATURE_V_MIN_VALUE>>, <<SIGNATURE_V_MAX_VALUE>>, value.v),
     r |-> IntegerField_run_validation(
               <<SIGNATURE_R_MIN_VALUE>>, <<SIGNATURE_R_MAX_VALUE>>, value.r),
     s |-> IntegerField_run_validation(
               <<SIGNATURE_S_MIN_VALUE>>, <<SIGNATURE_S_MAX_VALUE>>, value.s)]

\* Serializer.is_valid(): no declared field reported an error
is_valid(outcome) == \A k \in DOMAIN outcome : outcome[k].kind # "error"

(***************************************************************************)
(* TransactionSerializer and TransactionResponseSerializer                 *)
(***************************************************************************)

DecimalDigits == <<"0", "1", "2", "3", "4", "5", "6", "7", "8", "9">>

\* str(n) of an integer
RECURSIVE int_str(_)
int_str(n) ==
    IF n < 0 THEN <<"-">> \o int_str(-n)
    ELSE IF n < 10 THEN <<DecimalDigits[n + 1]>>
    ELSE int_str(n \div 10) \o <<DecimalDigits[(n % 10) + 1]>>

\* repr of a byte string whose bytes are all escaped as \xNN
RECURSIVE bytes_escapes(_)
bytes_escapes(b) ==
    IF b = <<>> THEN <<>>
    ELSE <<"\\", "x", HexLower[(Head(b) \div 16) + 1], HexLower[(Head(b) % 16) + 1]>>
             \o bytes_escapes(Tail(b))

\* str(value): the text itself, the digits of an integer, b'...' for bytes
py_str(value) ==
    IF value.type = "str" THEN value.text
    ELSE IF value.type = "int" THEN int_str(value.int)
    ELSE <<"b", "'">> \o bytes_escapes(value.bytes) \o <<"'">>

\* the declared fields of TransactionSerializer, by attribute name
TransactionSerializer_declared ==
    [from_ |-> "EthereumAddressField", value |-> "IntegerField",
     data |-> "HexadecimalField", gas |-> "IntegerField",
     gas_price |-> "IntegerField", nonce |-> "IntegerField"]

\* the declared fields of TransactionResponseSerializer, by attribute name
TransactionResponseSerializer_declared ==
    [from_ |-> "EthereumAddressField", value |-> "IntegerField",
     data |-> "CharField", gas |-> "CharField",
     gas_price |-> "CharField", nonce |-> "IntegerField"]

\* get_fields() of both serializers: `from_` is popped and put back as `from`
get_fields(declared) ==
    [k \in (DOMAIN declared \ {"from_"}) \cup {"from"} |->
        IF k = "from" THEN declared["from_"] ELSE declared[k]]

\* Field.to_representation of the four field classes used
field_to_representation(class, attribute) ==
    CASE class = "EthereumAddressField" -> EthereumAddressField_to_representation(attribute)
      [] class = "IntegerField" -> PyInt(attribute.int)                     \* int(value)
      [] class = "CharField" -> Str(py_str(attribute))                      \* str(value)
      [] class = "HexadecimalField" ->
             Str(HexadecimalField_to_representation(attribute).value)

\* Serializer.to_representation: every field of get_fields(), keyed by the name
\* it is bound under, rendered from the attribute of that name
Serializer_to_representation(declared, instance) ==
    LET fields == get_fields(declared)
    IN  [k \in DOMAIN fields |-> field_to_representation(fields[k], instance[k])]

TransactionSerializer == [class |-> "TransactionSerializer"]

TransactionResponseSerializer == [class |-> "TransactionResponseSerializer"]

SignatureSerializer == [class |-> "SignatureSerializer"]

\* the declared fields of a transaction serializer
declared_fields(self) ==
    IF self.class = "TransactionSerializer" THEN TransactionSerializer_declared
    ELSE TransactionResponseSerializer_declared

(***************************************************************************)
(* Inputs                                                                  *)
(***************************************************************************)
\* characters of the texts tried: a digit, a lowercase and an uppercase hex
\* letter, the two prefix letters, a letter that is no hex digit, a blank
Chars == {"0", "a", "B", "x", "X", "g", " "}

Texts == UNION {[1..n -> Chars] : n \in 0..MaxStrLen}

\* byte values tried: 0x00, 0x0a (a leading zero digit), 0xab
ByteVals == {0, 10, 171}

ByteStrings == UNION {[1..n -> ByteVals] : n \in 0..MaxBytesLen}

ByteTypes == {"bytes", "memoryview", "HexBytes"}

ByteObjects == {ByteObject(t, b) : t \in ByteTypes, b \in ByteStrings}

\* what a caller may hand to to_internal_value: text, bytes, None, a number
InternalInputs ==
    {Str(s) : s \in Texts} \cup ByteObjects \cup {None, PyInt(1)}

\* how far from 32 bytes the inputs of a Sha3HashField are
Sha3Slack == 1

Sha3ByteStrings ==
    {Repeat(x, n) : x \in ByteVals, n \in (32 - Sha3Slack)..(32 + Sha3Slack)}

\* hashes as bytes, as text with and without the prefix, and the blank inputs
Sha3Inputs ==
    {ByteObject(t, b) : t \in ByteTypes, b \in Sha3ByteStrings}
    \cup {Str(HexBytes_hex(b)) : b \in Sha3ByteStrings}
    \cup {Str(bytes_hex(b)) : b \in Sha3ByteStrings}
    \cup {None, Str(<<>>), Str(<<"0", "x">>), Bytes(<<>>)}

\* characters of the addresses tried: two digits, a hex letter in both cases, a
\* letter that is no hex digit
AddrChars == {"0", "1", "a", "A", "g"}

AddrBodies ==
    UNION {[1..n -> AddrChars] : n \in (AddrHexLen - 1)..(AddrHexLen + 1)}

AddrPrefixes == {<<"0", "x">>, <<"0", "X">>, <<>>}

AddressInputs == {Str(p \o b) : p \in AddrPrefixes, b \in AddrBodies} \cup {None}

\* digits a decimal may have beyond max_digits
ExtraDigits == 1

\* 2^32 - 1, 2^32, 2^96 - 1 and 2^96 in decimal digits
Pow2Digits ==
    {<<4, 2, 9, 4, 9, 6, 7, 2, 9, 5>>, <<4, 2, 9, 4, 9, 6, 7, 2, 9, 6>>,
     <<7, 9, 2, 2, 8, 1, 6, 2, 5, 1, 4, 2, 6, 4, 3, 3, 7, 5, 9, 3, 5, 4, 3, 9, 5, 0, 3, 3, 5>>,
     <<7, 9, 2, 2, 8, 1, 6, 2, 5, 1, 4, 2, 6, 4, 3, 3, 7, 5, 9, 3, 5, 4, 3, 9, 5, 0, 3, 3, 6>>}

\* digit strings of every length up to max_digits + ExtraDigits: a leading digit
\* and one digit repeated, and the powers of two above
DigitStrings(max_digits) ==
    {<<lead>> \o Repeat(fill, n - 1) :
        lead \in {1, 4, 7, 9}, fill \in {0, 2, 9}, n \in 1..(max_digits + ExtraDigits)}
    \cup {<<0>>} \cup Pow2Digits

Decimals(max_digits) ==
    {[sign |-> sg, digits |-> d, exponent |-> e] :
        sg \in {0, 1}, d \in DigitStrings(max_digits), e \in -1..1}

\* how far outside its range a signature component is tried
SigSlack == 1

Signatures ==
    {[v |-> v, r |-> r, s |-> s] :
        v \in (SIGNATURE_V_MIN_VALUE - SigSlack)..(SIGNATURE_V_MAX_VALUE + SigSlack),
        r \in (SIGNATURE_R_MIN_VALUE - SigSlack)..(SIGNATURE_R_MAX_VALUE + SigSlack),
        s \in (SIGNATURE_S_MIN_VALUE - SigSlack)..(SIGNATURE_S_MAX_VALUE + SigSlack)}

\* largest value, gas and gas_price of a transaction
MaxAmount == 10

\* largest nonce of a transaction
MaxNonce == 1

Transactions ==
    {[from |-> Str(<<"0", "x">> \o Repeat(c, AddrHexLen)), value |-> PyInt(value),
      data |-> Bytes(d), gas |-> PyInt(gas), gas_price |-> PyInt(gas_price),
      nonce |-> PyInt(nonce)] :
        c \in {"0", "1"}, value \in 0..MaxAmount, d \in {<<>>, <<171>>},
        gas \in 0..MaxAmount, gas_price \in 0..MaxAmount, nonce \in 0..MaxNonce}

(***************************************************************************)
(* Operations                                                              *)
(***************************************************************************)
\* every field and serializer of the module, as constructed
Fields ==
    HexadecimalFields \cup Sha3HashFields \cup EthereumAddressFields
    \cup {Uint96Field, Uint32Field}
    \cup {SignatureSerializer, TransactionSerializer, TransactionResponseSerializer}

\* a field has been constructed; no call is in progress
Init ==
    /\ op = "ready"
    /\ field \in Fields
    /\ data = None
    /\ result = NoValue

\* an object is rendered with HexadecimalField.to_representation
HexToRepresentation ==
    /\ op = "ready"
    /\ field.class = "HexadecimalField"
    /\ \E obj \in ByteObjects \cup {None} \cup {Str(s) : s \in Texts} :
        /\ op' = "hex_to_representation"
        /\ data' = obj
        /\ result' = HexadecimalField_to_representation(obj)
        /\ UNCHANGED field

\* the rendered text comes back and is validated by the same field
HexPostBack ==
    /\ op = "hex_to_representation"
    /\ result.kind = "value"
    /\ op' = "hex_round_trip"
    /\ result' = HexadecimalField_to_internal_value(field, Str(result.value))
    /\ UNCHANGED <<field, data>>

\* input is validated with HexadecimalField.to_internal_value
HexToInternalValue ==
    /\ op = "ready"
    /\ field.class = "HexadecimalField"
    /\ \E value \in InternalInputs :
        /\ op' = "hex_to_internal_value"
        /\ data' = value
        /\ result' = HexadecimalField_to_internal_value(field, value)
        /\ UNCHANGED field

\* a hash is validated with to_internal_value, which Sha3HashField inherits
Sha3ToInternalValue ==
    /\ op = "ready"
    /\ field.class = "Sha3HashField"
    /\ \E value \in Sha3Inputs :
        /\ op' = "hex_to_internal_value"
        /\ data' = value
        /\ result' = HexadecimalField_to_internal_value(field, value)
        /\ UNCHANGED field

\* an address is validated with EthereumAddressField.to_internal_value
AddressToInternalValue ==
    /\ op = "ready"
    /\ field.class = "EthereumAddressField"
    /\ \E value \in AddressInputs :
        /\ op' = "address_to_internal_value"
        /\ data' = value
        /\ result' = EthereumAddressField_to_internal_value(field, value)
        /\ UNCHANGED field

\* a decimal is validated by a Uint96Field or a Uint32Field
UintRunValidation ==
    /\ op = "ready"
    /\ field.class \in {"Uint96Field", "Uint32Field"}
    /\ \E value \in Decimals(field.max_digits) :
        /\ op' = "uint_run_validation"
        /\ data' = value
        /\ result' = DecimalField_run_validation(field, value)
        /\ UNCHANGED field

\* a signature is validated by SignatureSerializer
SignatureRunValidation ==
    /\ op = "ready"
    /\ field.class = "SignatureSerializer"
    /\ \E value \in Signatures :
        /\ op' = "signature_run_validation"
        /\ data' = value
        /\ result' = SignatureSerializer_run_validation(value)
        /\ UNCHANGED field

\* a transaction is rendered by one of the two transaction serializers
TransactionToRepresentation ==
    /\ op = "ready"
    /\ field.class \in {"TransactionSerializer", "TransactionResponseSerializer"}
    /\ \E instance \in Transactions :
        /\ op' = "transaction_to_representation"
        /\ data' = instance
        /\ result' = Serializer_to_representation(declared_fields(field), instance)
        /\ UNCHANGED field

\* the call returns; the field is kept, the values of the call are dropped
Return ==
    /\ op # "ready"
    /\ op' = "ready"
    /\ data' = None
    /\ result' = NoValue
    /\ UNCHANGED field

Next ==
    \/ HexToRepresentation
    \/ HexPostBack
    \/ HexToInternalValue
    \/ Sha3ToInternalValue
    \/ AddressToInternalValue
    \/ UintRunValidation
    \/ SignatureRunValidation
    \/ TransactionToRepresentation
    \/ Return


(***************************************************************************)
(* Properties                                                              *)
(***************************************************************************)
\* a text as the wire format reads it: blanks around it dropped, then a leading
\* 0x or 0X dropped
Normalized(s) ==
    LET t == Strip(s)
    IN  IF StartsWith(t, <<"0", "x">>) \/ StartsWith(t, <<"0", "X">>)
        THEN DropFirst(t, 2) ELSE t

\* the length bounds that are set (not None) admit n bytes
WithinBounds(self, n) ==
    /\ self.max_length # <<>> => n <= self.max_length[1]
    /\ self.min_length # <<>> => n >= self.min_length[1]

\* C1, as claimed: every byte string within the bounds of the field, the empty
\* one included, comes back from to_internal_value(to_representation(b))
C1_RoundTripOriginal ==
    (op = "hex_round_trip" /\ data.type \in ByteTypes
        /\ WithinBounds(field, Len(data.bytes)))
    => result = Ok(data.bytes)

\* C1, amended: every byte string of at least one byte within the bounds of the
\* field comes back unchanged from to_internal_value(to_representation(b))
C1_RoundTrip ==
    (op = "hex_round_trip" /\ data.type \in ByteTypes /\ Len(data.bytes) >= 1
        /\ WithinBounds(field, Len(data.bytes)))
    => result = Ok(data.bytes)

C1_Witness ==
    /\ op = "hex_round_trip"
    /\ data = ByteObject("memoryview", <<10, 171>>)
    /\ field.min_length = <<2>>
    /\ field.max_length = <<2>>
    /\ result = Ok(<<10, 171>>)

\* an input with nothing in it: None, no bytes, or text that normalizes to ""
BlankInput(value) ==
    \/ value.type = "NoneType"
    \/ value.type \in ByteTypes /\ value.bytes = <<>>
    \/ value.type = "str" /\ Normalized(value.text) = <<>>

\* C2: an input that is empty after normalization fails with "blank" when
\* allow_blank is false and gives None when it is true, never a byte value
C2_BlankHandling ==
    (op = "hex_to_internal_value" /\ BlankInput(data))
    => result = IF field.allow_blank THEN NoValue ELSE Fail("blank", 0)

\* C3: text that normalizes to something non-empty of odd length, or holding a
\* character that is no hex digit, fails with "invalid" under every configuration
C3_InvalidHexRejected ==
    (op = "hex_to_internal_value" /\ data.type = "str"
        /\ LET n == Normalized(data.text)
           IN  /\ n # <<>>
               /\ \/ Len(n) % 2 = 1
                  \/ \E i \in 1..Len(n) : ~IsHexChar(n[i]))
    => result = Fail("invalid", 0)

\* an input of the wire format: bytes, or text that normalizes to an even number
\* of hex digits
Decodable(value) ==
    \/ value.type \in ByteTypes
    \/ /\ value.type = "str"
       /\ LET n == Normalized(value.text)
          IN  Len(n) % 2 = 0 /\ \A i \in 1..Len(n) : IsHexChar(n[i])

\* the bytes a decodable input stands for
Decoded(value) ==
    IF value.type \in ByteTypes THEN value.bytes
    ELSE LET n == Normalized(value.text)
         IN  [i \in 1..(Len(n) \div 2) |-> 16 * HexVal(n[2 * i - 1]) + HexVal(n[2 * i])]

C7_Representation ==
    (op = "hex_to_representation" /\ data.type \in ByteTypes \cup {"NoneType"})
    => IF data.bytes = <<>>
       THEN result = Ok(<<"0", "x">>)
       ELSE /\ result.kind = "value"
            /\ Len(result.value) = 2 + 2 * Len(data.bytes)
            /\ result.value[1] = "0"
            /\ result.value[2] = "x"
            /\ \A i \in 1..Len(data.bytes) :
                   /\ result.value[2 * i + 1] = HexLower[(data.bytes[i] \div 16) + 1]
                   /\ result.value[2 * i + 2] = HexLower[(data.bytes[i] % 16) + 1]

C7_Witness ==
    /\ op = "hex_to_representation"
    /\ data = ByteObject("memoryview", <<10, 171>>)
    /\ result = Ok(<<"0", "x", "0", "a", "a", "b">>)

\* a letter: a character with two cases
IsLetter(c) == Lower(c) # Upper(c)

\* an EIP-55 address: "0x", AddrHexLen hex digits, every letter upper case
\* exactly when its hash digit is above 7
ValidChecksummed(value) ==
    /\ value.type = "str"
    /\ Len(value.text) = AddrHexLen + 2
    /\ value.text[1] = "0"
    /\ value.text[2] = "x"
    /\ LET body == DropFirst(value.text, 2)
           low == [i \in 1..Len(body) |-> Lower(body[i])]
       IN  \A i \in 1..Len(body) :
               /\ IsHexChar(body[i])
               /\ IsLetter(body[i]) =>
                      ((body[i] = Upper(body[i])) <=> (KeccakNibble(low, i) > 7))

\* the number an address stands for
AddressNumber(value) == HexNumber(DropFirst(value.text, 2), 0)

\* C4: whatever the two flags, an input that is no EIP-55 address fails with the
\* "not checksumed" error, also when its number is 0 or 1
C4_ChecksumEnforced ==
    (op = "address_to_internal_value" /\ ~ValidChecksummed(data))
    => result = Fail("not_checksumed", 0)

C4_Witness ==
    /\ op = "address_to_internal_value"
    /\ data = Str(<<"0", "x">> \o Repeat("0", AddrHexLen + 1))
    /\ ~field.allow_zero_address
    /\ result = Fail("not_checksumed", 0)

\* C5: an EIP-55 address fails with the zero-address error exactly when it is 0
\* and allow_zero_address is false, with the sentinel-address error exactly when
\* it is 1 and allow_sentinel_address is false, and otherwise comes back unchanged
C5_ZeroAndSentinel ==
    (op = "address_to_internal_value" /\ ValidChecksummed(data))
    => result =
         IF AddressNumber(data) = 0 /\ ~field.allow_zero_address
         THEN Fail("zero_address", 0)
         ELSE IF AddressNumber(data) = 1 /\ ~field.allow_sentinel_address
         THEN Fail("sentinel_address", 0)
         ELSE Ok(data.text)

C5_Witness ==
    /\ op = "address_to_internal_value"
    /\ ValidChecksummed(data)
    /\ AddressNumber(data) = 1
    /\ field.allow_zero_address
    /\ ~field.allow_sentinel_address
    /\ result = Fail("sentinel_address", 0)

\* the outcome of one signature component under an inclusive range
RangeOutcome(x, lo, hi) ==
    IF x < lo THEN Fail("min_value", lo)
    ELSE IF x > hi THEN Fail("max_value", hi)
    ELSE Ok(x)

\* C9: a signature is accepted exactly when v, r and s each lie in their
\* inclusive range; a component below its minimum or above its maximum gets an
\* out-of-range error of its own, a component in range never does
C9_SignatureRanges ==
    op = "signature_run_validation"
    => /\ is_valid(result) <=>
            /\ data.v \in SIGNATURE_V_MIN_VALUE..SIGNATURE_V_MAX_VALUE
            /\ data.r \in SIGNATURE_R_MIN_VALUE..SIGNATURE_R_MAX_VALUE
            /\ data.s \in SIGNATURE_S_MIN_VALUE..SIGNATURE_S_MAX_VALUE
       /\ result.v = RangeOutcome(data.v, SIGNATURE_V_MIN_VALUE, SIGNATURE_V_MAX_VALUE)
       /\ result.r = RangeOutcome(data.r, SIGNATURE_R_MIN_VALUE, SIGNATURE_R_MAX_VALUE)
       /\ result.s = RangeOutcome(data.s, SIGNATURE_S_MIN_VALUE, SIGNATURE_S_MAX_VALUE)

C9_Witness ==
    /\ op = "signature_run_validation"
    /\ data = [v |-> SIGNATURE_V_MIN_VALUE, r |-> SIGNATURE_R_MAX_VALUE,
               s |-> SIGNATURE_S_MAX_VALUE + 1]
    /\ result.v.kind = "value"
    /\ result.r.kind = "value"
    /\ result.s = Fail("max_value", SIGNATURE_S_MAX_VALUE)
    /\ ~is_valid(result)

\* text made of decimal digits only
IsDecimalText(w) ==
    /\ w.type = "str"
    /\ w.text # <<>>
    /\ \A i \in 1..Len(w.text) : \E d \in 1..10 : DecimalDigits[d] = w.text[i]

\* the integer a text of decimal digits stands for
RECURSIVE ParseDecimal(_, _)
ParseDecimal(s, acc) ==
    IF s = <<>> THEN acc
    ELSE ParseDecimal(Tail(s),
                      10 * acc + (CHOOSE d \in 1..10 : DecimalDigits[d] = Head(s)) - 1)

\* C8: the string form and the numeric form of a transaction both carry the
\* sender under `from`, agree on `from` and `nonce`, and the string form carries
\* value, gas and gas_price as decimal texts of the integers of the numeric form
C8_TransactionFormsAgree ==
    (op = "transaction_to_representation"
        /\ field.class = "TransactionResponseSerializer")
    => LET string == result
           numeric == Serializer_to_representation(TransactionSerializer_declared, data)
       IN  /\ "from" \in DOMAIN string /\ "from_" \notin DOMAIN string
           /\ "from" \in DOMAIN numeric /\ "from_" \notin DOMAIN numeric
           /\ string["from"] = numeric["from"]
           /\ string["nonce"] = numeric["nonce"]
           /\ \A k \in {"value", "gas", "gas_price"} :
                  /\ numeric[k].type = "int"
                  /\ IsDecimalText(string[k])
                  /\ ParseDecimal(string[k].text, 0) = numeric[k].int

\* the largest value of an unsigned integer of the width the field is named for
UintMaxDigits(self) ==
    IF self.class = "Uint32Field"
    THEN <<4, 2, 9, 4, 9, 6, 7, 2, 9, 5>>
    ELSE <<7, 9, 2, 2, 8, 1, 6, 2, 5, 1, 4, 2, 6, 4, 3,
           3, 7, 5, 9, 3, 5, 4, 3, 9, 5, 0, 3, 3, 5>>

\* a <= b for numbers written as digits without leading zeros
DigitsLE(a, b) ==
    \/ Len(a) < Len(b)
    \/ /\ Len(a) = Len(b)
       /\ \/ a = b
          \/ \E i \in 1..Len(a) : a[i] < b[i] /\ \A j \in 1..(i - 1) : a[j] = b[j]

\* C10: Uint32Field accepts only whole numbers of [0, 2^32 - 1] and Uint96Field
\* only whole numbers of [0, 2^96 - 1]
C10_UintWidth ==
    (op = "uint_run_validation" /\ result.kind = "value")
    => /\ data.exponent >= 0
       /\ data.sign = 0 \/ IsZero(data)
       /\ IsZero(data) \/ DigitsLE(result.value.digits, UintMaxDigits(field))

Spec == Init /\ [][Next]_vars
====
